---- MODULE Spec2Model ----
(***************************************************************************)
(* A model of src/src/transform.c (xinput "map-to-output"): the dispatcher *)
(* map_to_crtc, the two resolvers map_crtc_xrandr and map_crtc_xinerama,   *)
(* the builder set_transformation_matrix and the applier apply_matrix.     *)
(* The X server is the environment: every reply it gives is drawn from a   *)
(* small set at the place where the code asks for it.                      *)
(***************************************************************************)
EXTENDS Integers, Sequences, FiniteSets, TLC

VARIABLES
    pc,          \* position of the single thread of control
    retpc,       \* where apply_matrix returns to
    display,     \* <<DisplayWidth, DisplayHeight>> of the default screen
    atoms0,      \* atoms interned on the server before the invocation
    atoms,       \* atoms interned on the server now
    argc,        \* map_to_crtc: argc
    info,        \* map_to_crtc: xi2_find_device_info() found the device
    crtc_name,   \* argv[1], a sequence of character codes
    ext,         \* replies to the extension and version queries
    invoked,     \* the resolvers called by map_to_crtc, in order
    res,         \* map_crtc_xrandr: res->outputs (with their infos)
    i,           \* map_crtc_xrandr: loop counter (0-based)
    found,       \* map_crtc_xrandr: found
    crtc_info,   \* map_crtc_xrandr: last CRTC info fetched, and for which output
    examined,    \* map_crtc_xrandr: outputs XRRGetOutputInfo was asked about
    xin_present, \* map_crtc_xinerama: XineramaQueryExtension's answer
    screens,     \* map_crtc_xinerama: the queried screen list
    nscreens,    \* map_crtc_xinerama: nscreens
    head,        \* map_crtc_xinerama: head
    reads,       \* indices at which screens[] was read
    m,           \* the Matrix on the resolver's stack
    rect,        \* the rectangle handed to set_transformation_matrix
    reply,       \* apply_matrix: what XIGetProperty returned
    written,     \* values sent with XIChangeProperty, in order
    rc,          \* the rc local of the running resolver / of apply_matrix
    result,      \* return value of map_to_crtc
    err,         \* messages written to stderr
    out,         \* messages written to stdout
    xlog,        \* requests sent to the server, in order
    acq,         \* how often each resource was acquired
    rel,         \* how often each resource was released
    lateUse      \* a resource was used after its release

vars == <<pc, retpc, display, atoms0, atoms, argc, info, crtc_name, ext, invoked,
          res, i, found, crtc_info, examined, xin_present, screens, nscreens,
          head, reads, m, rect, reply, written, rc, result, err, out, xlog,
          acq, rel, lateUse>>

inVars  == <<argc, info, crtc_name, ext>>
xrVars  == <<res, i, found, crtc_info, examined>>
xinVars == <<xin_present, screens, nscreens, head, reads>>
envVars == <<display, atoms0>>

----------------------------------------------------------------------------
(* Bounds of the model *)

MaxOutputs == 2
MaxScreens == 2
MaxDim == 3

(* Program constants *)

EXIT_SUCCESS == "EXIT_SUCCESS"
EXIT_FAILURE == "EXIT_FAILURE"
Success == "Success"
BadDevice == "BadDevice"
Ascii0 == 48                                      \* '0'

Prefix == <<72, 69, 65, 68, 45>>                  \* "HEAD-"
FLOAT == "FLOAT"
CTM == "Coordinate Transformation Matrix"
None == "None"
INTEGER == "INTEGER"

UNSET == "unset"             \* a return value not yet produced

Resources == {"res", "screens", "data"}

(* stderr / stdout messages, one per fprintf/printf of the source *)
MsgUsage        == "Usage: xinput %s %s"
MsgNoDevice     == "unable to find device %s"
MsgNoFloat      == "Float atom not found. This server is too old."
MsgNoMatrix     == "Coordinate transformation matrix not found. This server is too old"
MsgBadProp      == "Failed to retrieve current property values"
MsgNoOutput     == "Unable to find output '%s'. Output may not be connected."
MsgNoXinerama   == "Unable to set screen mapping. Xinerama extension not found"
MsgBadName      == "Please specify the output name as HEAD-X,where X is the screen number"
MsgNoScreens    == "Xinerama failed to query screens."
MsgFewScreens   == "Found %d screens, but you requested %s."

----------------------------------------------------------------------------
(* Rationals stand for the float values of the matrix: <<num, den>>, den > 0,
   in lowest terms, so that equal values are equal tuples. *)

Abs(n) == IF n < 0 THEN -n ELSE n

RECURSIVE GCD(_, _)
GCD(a, b) == IF b = 0 THEN a ELSE GCD(b, a % b)

Rat(n, d) == LET g == GCD(Abs(n), d) IN <<n \div g, d \div g>>

RatLeq(a, b) == a[1] * b[2] <= b[1] * a[2]

R0 == <<0, 1>>
R1 == <<1, 1>>

----------------------------------------------------------------------------
(* Matrix utility: a Matrix is the 9-tuple m->m[0..8], kept 1-based here. *)

MatrixSet(mat, row, col, val) == [mat EXCEPT ![row * 3 + col + 1] = val]

MatrixSetUnity(mat) ==
    LET z == [k \in DOMAIN mat |-> R0]                   \* memset
    IN  MatrixSet(MatrixSet(MatrixSet(z, 0, 0, R1), 1, 1, R1), 2, 2, R1)

Unity == MatrixSetUnity(<<R0, R0, R0, R0, R0, R0, R0, R0, R0>>)

(* the builder without matrix_set_unity *)
SetTransformationMatrix_NoReset(mat, dpy, offset_x, offset_y, screen_width, screen_height) ==
    MatrixSet(MatrixSet(MatrixSet(MatrixSet(mat, 0, 2, Rat(offset_x, dpy[1])),
        1, 2, Rat(offset_y, dpy[2])), 0, 0, Rat(screen_width, dpy[1])),
        1, 1, Rat(screen_height, dpy[2]))

(* set_transformation_matrix: dpy is <<width, height>> of the default screen *)
SetTransformationMatrix(mat, dpy, offset_x, offset_y, screen_width, screen_height) ==
    LET width  == dpy[1]
        height == dpy[2]
        x == Rat(offset_x, width)
        y == Rat(offset_y, height)
        w == Rat(screen_width, width)
        h == Rat(screen_height, height)
        u == MatrixSetUnity(mat)
    IN  MatrixSet(MatrixSet(MatrixSet(MatrixSet(u, 0, 2, x), 1, 2, y), 0, 0, w), 1, 1, h)

----------------------------------------------------------------------------
(* C string helpers, on sequences of character codes *)

StrLen(s) == Len(s)

(* s[k] for a 1-based k, the terminating NUL included *)
CharAt(s, k) == IF k <= Len(s) THEN s[k] ELSE 0

Min(a, b) == IF a <= b THEN a ELSE b
Max(a, b) == IF a >= b THEN a ELSE b

(* strncmp(a, b, n) == 0: the first n characters agree, or the strings agree
   up to and including a terminating NUL before that *)
StrNCmpEq(a, b, n) ==
    \A k \in 1..n : k <= Min(Len(a), Len(b)) + 1 => CharAt(a, k) = CharAt(b, k)

(* a comparison of the requested name's length only *)
StrCmpEq_Prefix(a, b) == StrNCmpEq(a, b, Len(b))

(* strcmp(a, b) == 0 *)
StrCmpEq(a, b) == StrNCmpEq(a, b, Max(Len(a), Len(b)) + 1)

----------------------------------------------------------------------------
(* Inputs and server replies *)

Names ==
    { <<72, 69, 65, 68>>,                  \* "HEAD"
      <<70, 79, 79, 45, 49>>,              \* "FOO-1"
      <<72, 69, 65, 68, 45, 48>>,          \* "HEAD-0"
      <<72, 69, 65, 68, 45, 51>>,          \* "HEAD-3"
      <<72, 69, 65, 68, 45, 47>>,          \* "HEAD-/"
      <<72, 69, 65, 68, 45, 49, 48>>,      \* "HEAD-10"
      <<86, 71, 65, 45, 49>>,              \* "VGA-1"
      <<86, 71, 65, 45, 49, 48>> }         \* "VGA-10"

OutputNames ==
    { <<86, 71, 65, 45, 49>>,              \* "VGA-1"
      <<86, 71, 65, 45, 49, 48>> }         \* "VGA-10"

Versions == { <<1, 1>>, <<1, 2>>, <<2, 0>> }

ArgCounts == {1, 2}

Display0 == <<4, 2>>

RR_Connected == "RR_Connected"
RR_Disconnected == "RR_Disconnected"

(* An output as XRRGetOutputInfo describes it. crtc 0 is "no CRTC"; the k-th
   output, when enabled, drives CRTC k. *)
OutputsAt(k) == [crtc : {0, k}, connection : {RR_Connected, RR_Disconnected},
                 name : OutputNames]

OutputLists ==
    UNION { { s \in [1..n -> UNION { OutputsAt(k) : k \in 1..n }] :
                \A k \in 1..n : s[k] \in OutputsAt(k) } : n \in 0..MaxOutputs }

(* XRRGetCrtcInfo: the geometry of CRTC c *)
CrtcGeom(c) == [x |-> c - 1, y |-> 0, width |-> 1, height |-> 1]

(* XineramaQueryScreens: the k-th screen of the list, k 0-based *)
ScreenGeom(k) == [x |-> k, y |-> 0, width |-> 1, height |-> 2]

(* What the memory beside the screen list may hold *)
StrayRects == { [x |-> 3, y |-> 1, width |-> 0, height |-> 5] }

NoRect == [x |-> 0, y |-> 0, width |-> 0, height |-> 0]

NoReply == [rc |-> UNSET, type |-> None, format |-> 0, nitems |-> 0, bytes_after |-> 0]

(* XIGetProperty's replies. A failed request sets nothing. A property that
   does not exist answers type None. A property can only be of a type whose
   atom the server knew, under a name the server knew. *)
PropReplies(known) ==
    { [rc |-> BadDevice, type |-> None, format |-> 0, nitems |-> 0, bytes_after |-> 0],
      [rc |-> Success, type |-> None, format |-> 0, nitems |-> 0, bytes_after |-> 0] }
    \cup
    IF CTM \notin known THEN {}
    ELSE [rc : {Success},
          type : {INTEGER} \cup (IF FLOAT \in known THEN {FLOAT} ELSE {}),
          format : {8, 32}, nitems : {8, 9}, bytes_after : {0, 4}]

(* XIGetProperty hands out a buffer when it succeeds on an existing property *)
ReplyHasBuffer(r) == r.rc = Success /\ r.type # None

(* XInternAtom(dpy, name, only_if_exists): the atom, and the server's atoms *)
XInternAtom(known, name, only_if_exists) ==
    IF name \in known THEN [atom |-> name, known |-> known]
    ELSE IF only_if_exists THEN [atom |-> None, known |-> known]
    ELSE [atom |-> name, known |-> known \cup {name}]

----------------------------------------------------------------------------
(* the choice without the NV-CONTROL override *)
UseXinerama_IgnoresNv(nv, randr, rrok, maj, min) ==
    ~randr \/ ~rrok \/ (maj * 1000 + min) < 1002

(* map_to_crtc's choice of backend: TRUE for Xinerama *)
UseXinerama(nv, randr, rrok, maj, min) ==
    nv \/ ~randr \/ ~rrok \/ (maj * 1000 + min) < 1002

(* the test without the element count *)
ReadRejected_NoCount(r, prop_float) ==
    \/ r.rc # Success
    \/ prop_float # r.type
    \/ r.format # 32
    \/ r.bytes_after # 0

(* apply_matrix's test of the property read *)
ReadRejected(r, prop_float) ==
    \/ r.rc # Success
    \/ prop_float # r.type
    \/ r.format # 32
    \/ r.nitems # 9
    \/ r.bytes_after # 0

(* the test with the length alone *)
NameRejected_LengthOnly(output_name) ==
    StrLen(output_name) < StrLen(Prefix) + 1

(* map_crtc_xinerama's test of the output name *)
NameRejected(output_name) ==
    \/ StrLen(output_name) < StrLen(Prefix) + 1
    \/ ~StrNCmpEq(output_name, Prefix, StrLen(Prefix))

(* head = output_name[strlen(prefix)] - '0' *)
HeadOf(output_name) == CharAt(output_name, StrLen(Prefix) + 1) - Ascii0

(* map_crtc_xrandr's test of one output *)
OutputSkipped(o) == o.crtc = 0 \/ o.connection # RR_Connected

----------------------------------------------------------------------------
(* State after program start, before map_to_crtc is entered *)

ZeroMatrix == <<R0, R0, R0, R0, R0, R0, R0, R0, R0>>

NoExt == [nv |-> FALSE, randr |-> FALSE, rrok |-> FALSE, maj |-> 0, min |-> 0]

Idle ==
    /\ retpc = "none"
    /\ argc = 0
    /\ info = FALSE
    /\ crtc_name = <<>>
    /\ ext = NoExt
    /\ invoked = <<>>
    /\ res = <<>>
    /\ i = 0
    /\ found = 0
    /\ crtc_info = [of |-> 0, geom |-> NoRect]
    /\ examined = <<>>
    /\ xin_present = FALSE
    /\ screens = <<>>
    /\ nscreens = 0
    /\ head = 0
    /\ reads = {}
    /\ reply = NoReply
    /\ written = <<>>
    /\ rc = UNSET
    /\ result = UNSET
    /\ err = <<>>
    /\ out = <<>>
    /\ xlog = <<>>
    /\ acq = [r \in Resources |-> 0]
    /\ rel = [r \in Resources |-> 0]
    /\ lateUse = FALSE

Init ==
    /\ pc = "map_to_crtc"
    /\ display = Display0
    /\ atoms0 \in SUBSET {FLOAT, CTM}
    /\ atoms = atoms0
    /\ m = ZeroMatrix
    /\ rect = NoRect
    /\ Idle

----------------------------------------------------------------------------
(* map_to_crtc, up to the call of a resolver *)
MapToCrtc ==
    /\ pc = "map_to_crtc"
    /\ \E ac \in ArgCounts, dev \in BOOLEAN, name \in Names,
          nv \in BOOLEAN, randr \in BOOLEAN, rrok \in BOOLEAN, ver \in Versions :
        /\ argc' = ac
        /\ \/ /\ ac < 2
              /\ err' = Append(err, MsgUsage)
              /\ result' = EXIT_FAILURE
              /\ pc' = "done"
              /\ UNCHANGED <<info, crtc_name, ext, invoked>>
           \/ /\ ac >= 2
              /\ ~dev
              /\ err' = Append(err, MsgNoDevice)
              /\ result' = EXIT_FAILURE
              /\ pc' = "done"
              /\ UNCHANGED <<info, crtc_name, ext, invoked>>
           \/ /\ ac >= 2
              /\ dev
              /\ info' = TRUE
              /\ crtc_name' = name
              /\ ext' = [nv |-> nv, randr |-> randr, rrok |-> rrok,
                         maj |-> ver[1], min |-> ver[2]]
              /\ pc' = IF UseXinerama(nv, randr, rrok, ver[1], ver[2])
                       THEN "map_crtc_xinerama" ELSE "map_crtc_xrandr"
              /\ invoked' = Append(invoked, pc')
              /\ UNCHANGED <<err, result>>
    /\ UNCHANGED <<retpc, atoms, m, rect, reply, written, rc, out, xlog,
                   acq, rel, lateUse>>
    /\ UNCHANGED <<xrVars, xinVars, envVars>>

----------------------------------------------------------------------------
(* apply_matrix, from entry to return *)
ApplyMatrix ==
    /\ pc = "apply_matrix"
    /\ LET f == XInternAtom(atoms, FLOAT, FALSE)
           c == XInternAtom(f.known, CTM, FALSE)
           prop_float == f.atom
           prop_matrix == c.atom
           asked == xlog \o <<"XInternAtom", "XInternAtom">>
       IN  /\ atoms' = c.known
           /\ IF prop_float = None
              THEN /\ err' = Append(err, MsgNoFloat)
                   /\ rc' = EXIT_FAILURE
                   /\ xlog' = asked
                   /\ UNCHANGED <<reply, written, acq, rel>>
              ELSE IF prop_matrix = None
              THEN /\ err' = Append(err, MsgNoMatrix)
                   /\ rc' = EXIT_FAILURE
                   /\ xlog' = asked
                   /\ UNCHANGED <<reply, written, acq, rel>>
              ELSE \E r \in PropReplies(atoms) :
                   /\ reply' = r
                   /\ acq' = IF ReplyHasBuffer(r)
                             THEN [acq EXCEPT !["data"] = @ + 1] ELSE acq
                   /\ IF ReadRejected(r, prop_float)
                      THEN /\ err' = Append(err, MsgBadProp)
                           /\ rc' = EXIT_FAILURE
                           /\ xlog' = Append(asked, "XIGetProperty")
                           /\ UNCHANGED <<written, rel>>
                      ELSE /\ written' = Append(written, m)
                           /\ xlog' = asked \o <<"XIGetProperty", "XIChangeProperty">>
                           /\ rel' = [rel EXCEPT !["data"] = @ + 1]
                           /\ rc' = EXIT_SUCCESS
                           /\ UNCHANGED err
    /\ pc' = retpc
    /\ retpc' = "none"
    /\ UNCHANGED <<m, rect, result, out, invoked, lateUse>>
    /\ UNCHANGED <<inVars, xrVars, xinVars, envVars>>

----------------------------------------------------------------------------
(* map_crtc_xrandr: locals set up, XRRGetScreenResources *)
MapCrtcXrandrBegin ==
    /\ pc = "map_crtc_xrandr"
    /\ \E l \in OutputLists : res' = l
    /\ i' = 0
    /\ found' = 0
    /\ rc' = EXIT_FAILURE
    /\ acq' = [acq EXCEPT !["res"] = @ + 1]
    /\ xlog' = Append(xlog, "XRRGetScreenResources")
    /\ pc' = "xrandr_loop"
    /\ UNCHANGED <<retpc, atoms, crtc_info, examined, m, rect, reply, written,
                   result, err, out, invoked, rel, lateUse>>
    /\ UNCHANGED <<inVars, xinVars, envVars>>

(* map_crtc_xrandr: one iteration of the for loop *)
MapCrtcXrandrLoop ==
    /\ pc = "xrandr_loop"
    /\ i < Len(res) /\ found = 0
    /\ LET o == res[i + 1]
       IN  /\ examined' = Append(examined, i + 1)
           /\ lateUse' = (lateUse \/ rel["res"] > 0)
           /\ IF OutputSkipped(o)
              THEN /\ i' = i + 1                                 \* continue
                   /\ UNCHANGED <<crtc_info, found>>
              ELSE /\ crtc_info' = [of |-> i + 1, geom |-> CrtcGeom(o.crtc)]
                   /\ IF StrCmpEq(o.name, crtc_name)
                      THEN found' = 1 /\ i' = i                  \* break
                      ELSE found' = found /\ i' = i + 1
    /\ UNCHANGED <<pc, retpc, atoms, res, m, rect, reply, written, rc, result,
                   err, out, xlog, invoked, acq, rel>>
    /\ UNCHANGED <<inVars, xinVars, envVars>>

(* map_crtc_xrandr: after the loop, up to the call of apply_matrix *)
MapCrtcXrandrFound ==
    /\ pc = "xrandr_loop"
    /\ ~(i < Len(res) /\ found = 0)
    /\ IF found # 0
       THEN /\ rect' = crtc_info.geom
            /\ m' = SetTransformationMatrix(MatrixSetUnity(m), display,
                        crtc_info.geom.x, crtc_info.geom.y,
                        crtc_info.geom.width, crtc_info.geom.height)
            /\ pc' = "apply_matrix"
            /\ retpc' = "xrandr_out"
            /\ UNCHANGED out
       ELSE /\ out' = Append(out, MsgNoOutput)
            /\ pc' = "xrandr_out"
            /\ UNCHANGED <<m, rect, retpc>>
    /\ UNCHANGED <<atoms, reply, written, rc, result, err, xlog, invoked,
                   acq, rel, lateUse>>
    /\ UNCHANGED <<inVars, xrVars, xinVars, envVars>>

(* a return that forgets the screen resources *)
MapCrtcXrandrEnd_NoFree ==
    /\ pc = "xrandr_out"
    /\ result' = rc
    /\ pc' = "done"
    /\ UNCHANGED <<retpc, atoms, m, rect, reply, written, rc, err, out, xlog,
                   invoked, acq, rel, lateUse>>
    /\ UNCHANGED <<inVars, xrVars, xinVars, envVars>>

(* map_crtc_xrandr: XRRFreeScreenResources and return, through map_to_crtc *)
MapCrtcXrandrEnd ==
    /\ pc = "xrandr_out"
    /\ rel' = [rel EXCEPT !["res"] = @ + 1]
    /\ result' = rc
    /\ pc' = "done"
    /\ UNCHANGED <<retpc, atoms, m, rect, reply, written, rc, err, out, xlog,
                   invoked, acq, lateUse>>
    /\ UNCHANGED <<inVars, xrVars, xinVars, envVars>>

----------------------------------------------------------------------------
(* map_crtc_xinerama, from entry to the call of apply_matrix or to out: *)
MapCrtcXinerama ==
    /\ pc = "map_crtc_xinerama"
    /\ rc' = EXIT_FAILURE
    /\ \E present \in BOOLEAN, n \in 0..MaxScreens :
        /\ xin_present' = present
        /\ \/ /\ ~present
              /\ err' = Append(err, MsgNoXinerama)
              /\ pc' = "xinerama_out"
              /\ UNCHANGED <<screens, nscreens, head, reads, xlog, acq, m, rect,
                             retpc, lateUse>>
           \/ /\ present
              /\ NameRejected(crtc_name)
              /\ err' = Append(err, MsgBadName)
              /\ pc' = "xinerama_out"
              /\ UNCHANGED <<screens, nscreens, head, reads, xlog, acq, m, rect,
                             retpc, lateUse>>
           \/ /\ present
              /\ ~NameRejected(crtc_name)
              /\ head' = HeadOf(crtc_name)
              /\ nscreens' = n
              /\ screens' = [k \in 1..n |-> ScreenGeom(k - 1)]
              /\ acq' = IF n > 0 THEN [acq EXCEPT !["screens"] = @ + 1] ELSE acq
              /\ xlog' = Append(xlog, "XineramaQueryScreens")
              /\ \/ /\ n = 0
                    /\ err' = Append(err, MsgNoScreens)
                    /\ pc' = "xinerama_out"
                    /\ UNCHANGED <<reads, m, rect, retpc, lateUse>>
                 \/ /\ n # 0
                    /\ n <= head'
                    /\ err' = Append(err, MsgFewScreens)
                    /\ pc' = "xinerama_out"
                    /\ UNCHANGED <<reads, m, rect, retpc, lateUse>>
                 \/ /\ n # 0
                    /\ ~(n <= head')
                    /\ reads' = reads \cup {head'}
                    /\ lateUse' = (lateUse \/ rel["screens"] > 0)
                    /\ \/ /\ \/ /\ head' \in 0..(n - 1)
                                /\ rect' = screens'[head' + 1]
                             \/ /\ head' \notin 0..(n - 1)   \* read outside the list
                                /\ rect' \in StrayRects
                          /\ m' = SetTransformationMatrix(MatrixSetUnity(m), display,
                                      rect'.x, rect'.y, rect'.width, rect'.height)
                          /\ pc' = "apply_matrix"
                          /\ retpc' = "xinerama_out"
                          /\ UNCHANGED err
                       \/ /\ head' \notin 0..(n - 1)         \* the read faults
                          /\ pc' = "crashed"
                          /\ UNCHANGED <<m, rect, retpc, err>>
    /\ UNCHANGED <<atoms, reply, written, result, out, invoked, rel>>
    /\ UNCHANGED <<inVars, xrVars, envVars>>

(* map_crtc_xinerama: out: XFree(screens) and return, through map_to_crtc *)
MapCrtcXineramaOut ==
    /\ pc = "xinerama_out"
    /\ rel' = IF screens # <<>> THEN [rel EXCEPT !["screens"] = @ + 1] ELSE rel
    /\ result' = rc
    /\ pc' = "done"
    /\ UNCHANGED <<retpc, atoms, m, rect, reply, written, rc, err, out, xlog,
                   invoked, acq, lateUse>>
    /\ UNCHANGED <<inVars, xrVars, xinVars, envVars>>

----------------------------------------------------------------------------
Next ==
    \/ MapToCrtc
    \/ MapCrtcXrandrBegin
    \/ MapCrtcXrandrLoop
    \/ MapCrtcXrandrFound
    \/ MapCrtcXrandrEnd
    \/ MapCrtcXinerama
    \/ MapCrtcXineramaOut
    \/ ApplyMatrix

Spec == Init /\ [][Next]_vars

----------------------------------------------------------------------------
(* set_transformation_matrix on its own: any display size, any rectangle, any
   prior contents of the matrix *)

StrayMatrix == [k \in 1..9 |-> <<7, 1>>]

PriorMatrices == {ZeroMatrix, Unity, StrayMatrix}

InitBuilder ==
    /\ pc = "set_transformation_matrix"
    /\ display \in (1..MaxDim) \X (1..MaxDim)
    /\ rect \in [x : (-1)..MaxDim, y : (-1)..MaxDim,
                 width : 0..MaxDim, height : 0..MaxDim]
    /\ m \in PriorMatrices
    /\ atoms0 = {FLOAT, CTM}
    /\ atoms = atoms0
    /\ Idle

SetTransformationMatrixCall ==
    /\ pc = "set_transformation_matrix"
    /\ m' = SetTransformationMatrix(m, display, rect.x, rect.y, rect.width, rect.height)
    /\ pc' = "built"
    /\ UNCHANGED <<retpc, atoms, rect, reply, written, rc, result, err, out, xlog,
                   invoked, acq, rel, lateUse>>
    /\ UNCHANGED <<inVars, xrVars, xinVars, envVars>>

NextBuilder == SetTransformationMatrixCall

SpecBuilder == InitBuilder /\ [][NextBuilder]_vars

----------------------------------------------------------------------------
(* Vocabulary of the properties *)

InSeq(x, s) == \E k \in 1..Len(s) : s[k] = x

Returned == pc = "done"

(* the property applier has run to its return *)
Applied == InSeq("XInternAtom", xlog)

(* the property read has been issued *)
ReadDone == InSeq("XIGetProperty", xlog)

(* the property write has been issued *)
WriteDone == InSeq("XIChangeProperty", xlog)

(* no matrix was built and nothing was handed to the property applier *)
NothingBuilt ==
    /\ m = ZeroMatrix
    /\ rect = NoRect
    /\ pc # "apply_matrix"
    /\ ~Applied
    /\ written = <<>>

RatIs(r, n, d) == r[2] > 0 /\ r[1] * d = n * r[2]

----------------------------------------------------------------------------
VersionBelow12 == ext.maj < 1 \/ (ext.maj = 1 /\ ext.min < 2)

(* C1: once map_to_crtc has a device and two arguments it calls exactly one
   resolver: Xinerama when NV-CONTROL is present, or RANDR is absent, or the
   version query fails, or the version is below 1.2; RandR exactly when
   NV-CONTROL is absent, RANDR is present and the version is 1.2 or higher.
   The resolver's result is the result of map_to_crtc. *)
C1_BackendSelection ==
    /\ (argc >= 2 /\ info) =>
          /\ Len(invoked) = 1
          /\ invoked[1] \in {"map_crtc_xinerama", "map_crtc_xrandr"}
          /\ ext.nv => invoked[1] = "map_crtc_xinerama"
          /\ ~ext.randr => invoked[1] = "map_crtc_xinerama"
          /\ ~ext.rrok => invoked[1] = "map_crtc_xinerama"
          /\ VersionBelow12 => invoked[1] = "map_crtc_xinerama"
          /\ (invoked[1] = "map_crtc_xrandr") <=>
                (~ext.nv /\ ext.randr /\ ext.rrok /\ ~VersionBelow12)
          /\ Returned => result = rc
    /\ ~(argc >= 2 /\ info) => invoked = <<>>

C1_Witness ==
    /\ Returned
    /\ invoked = <<"map_crtc_xinerama">>
    /\ ext.nv /\ ext.randr /\ ext.rrok /\ ext.maj = 2
    /\ result = EXIT_SUCCESS

ReadIsGood ==
    /\ reply.rc = Success
    /\ reply.type = FLOAT
    /\ reply.format = 32
    /\ reply.nitems = 9
    /\ reply.bytes_after = 0

(* C2: when the property read fails, or returns another type than FLOAT, or a
   format other than 32, or a count other than 9, or bytes remaining, the call
   fails and no XIChangeProperty is issued; a write implies all five checks
   passed. *)
C2_NoWriteOnBadRead ==
    /\ (ReadDone /\ ~ReadIsGood) =>
          /\ rc = EXIT_FAILURE
          /\ InSeq(MsgBadProp, err)
          /\ ~WriteDone
          /\ written = <<>>
          /\ Returned => result = EXIT_FAILURE
    /\ (WriteDone \/ written # <<>>) => (ReadDone /\ ReadIsGood)

C2_Witness ==
    /\ Returned
    /\ reply = [rc |-> Success, type |-> FLOAT, format |-> 32, nitems |-> 8,
                bytes_after |-> 0]
    /\ result = EXIT_FAILURE
    /\ written = <<>>

(* every read of the screen list stayed inside the list *)
ReadsInside == reads \subseteq 0..(nscreens - 1)

(* C3: the buffer the property read returned is released exactly once on every
   path through apply_matrix that performed the read (stated for the runs
   whose screen-list reads stayed inside the list, on a server that knew both
   atoms). *)
C3_ReadBufferReleased ==
    (ReadDone /\ ReadsInside /\ atoms0 = {FLOAT, CTM}) =>
        (rel["data"] = acq["data"] /\ acq["data"] <= 1)

(* C4: on every path on which a resolver returns, the screen-resource set,
   respectively the screen list, it acquired has been released exactly once,
   and never before its last use. *)
C4_ResolverReleases ==
    /\ \A r \in {"res", "screens"} : rel[r] <= acq[r] /\ acq[r] <= 1
    /\ ~lateUse
    /\ Returned => \A r \in {"res", "screens"} : rel[r] = acq[r]
    /\ (Returned /\ invoked = <<"map_crtc_xrandr">>) => rel["res"] = 1
    /\ (Returned /\ invoked = <<"map_crtc_xinerama">> /\ nscreens > 0) =>
          rel["screens"] = 1

C4_Witness ==
    /\ Returned
    /\ invoked = <<"map_crtc_xrandr">>
    /\ found = 1
    /\ InSeq(MsgBadProp, err)
    /\ acq["res"] = 1 /\ rel["res"] = 1

XineramaRan == invoked = <<"map_crtc_xinerama">> /\ pc # "map_crtc_xinerama"

NameWellFormed == Len(crtc_name) >= 6 /\ SubSeq(crtc_name, 1, 5) = Prefix

IsDigit(ch) == ch \in 48..57

(* C5: with Xinerama present, a name shorter than 6 characters or not starting
   with "HEAD-" fails with the HEAD-X message before any screen query; "HEAD-d"
   gives index d; no screens, or an index at or beyond the screen count, fail
   with their messages; in all these cases no matrix is built and no property
   write is attempted. *)
C5_XineramaNames ==
    (XineramaRan /\ xin_present) =>
        /\ ~NameWellFormed =>
              /\ InSeq(MsgBadName, err)
              /\ ~InSeq("XineramaQueryScreens", xlog)
              /\ NothingBuilt
              /\ Returned => result = EXIT_FAILURE
        /\ (NameWellFormed /\ IsDigit(crtc_name[6])) => head = crtc_name[6] - 48
        /\ (NameWellFormed /\ nscreens = 0) =>
              /\ InSeq(MsgNoScreens, err)
              /\ NothingBuilt
              /\ Returned => result = EXIT_FAILURE
        /\ (NameWellFormed /\ nscreens # 0 /\ head >= nscreens) =>
              /\ InSeq(MsgFewScreens, err)
              /\ NothingBuilt
              /\ Returned => result = EXIT_FAILURE

C5_Witness ==
    /\ Returned
    /\ xin_present
    /\ crtc_name = <<72, 69, 65, 68, 45, 51>>
    /\ nscreens = 2
    /\ head = 3
    /\ InSeq(MsgFewScreens, err)
    /\ result = EXIT_FAILURE

RectInside ==
    /\ 0 <= rect.x /\ rect.x + rect.width <= display[1]
    /\ 0 <= rect.y /\ rect.y + rect.height <= display[2]

(* C6: for every display size W,H > 0 and every rectangle the builder leaves
   m00 = width/W, m11 = height/H, m02 = offset_x/W, m12 = offset_y/H, zeros
   elsewhere and m22 = 1, whatever the matrix held before; so a rectangle
   inside the display gives four entries in [0,1], and the whole display gives
   the identity. *)
C6_BuilderMatrix ==
    pc = "built" =>
        /\ RatIs(m[1], rect.width, display[1])
        /\ RatIs(m[5], rect.height, display[2])
        /\ RatIs(m[3], rect.x, display[1])
        /\ RatIs(m[6], rect.y, display[2])
        /\ \A k \in {2, 4, 7, 8} : RatIs(m[k], 0, 1)
        /\ RatIs(m[9], 1, 1)
        /\ RectInside =>
              \A k \in {1, 5, 3, 6} : RatLeq(R0, m[k]) /\ RatLeq(m[k], R1)
        /\ (rect.x = 0 /\ rect.y = 0 /\ rect.width = display[1]
                /\ rect.height = display[2]) => m = Unity

C6_Witness ==
    /\ pc = "built"
    /\ display = <<2, 3>>
    /\ rect = [x |-> 1, y |-> 0, width |-> 1, height |-> 3]
    /\ m = <<(<<1, 2>>), R0, (<<1, 2>>), R0, R1, R0, R0, R0, R1>>

(* C7: every failure return of map_to_crtc has written its diagnostic to
   standard error, not to standard output. *)
C7_FailuresOnStderr ==
    (Returned /\ result = EXIT_FAILURE) => (err # <<>> /\ out = <<>>)

XrandrDecided ==
    invoked = <<"map_crtc_xrandr">> /\ pc \notin {"map_crtc_xrandr", "xrandr_loop"}

Matches ==
    { k \in 1..Len(res) : /\ res[k].crtc # 0
                          /\ res[k].connection = RR_Connected
                          /\ res[k].name = crtc_name }

FirstMatch == CHOOSE k \in Matches : \A j \in Matches : k <= j

(* C8: map_crtc_xrandr hands a matrix to the property applier exactly when some
   output with a CRTC and connection "connected" bears the requested name; the
   rectangle is then the CRTC geometry fetched for the first such output, and
   no later output is examined; otherwise it fails with the "unable to find
   output" message and builds nothing. *)
C8_XrandrMatch ==
    XrandrDecided =>
        /\ (pc = "apply_matrix" \/ Applied) <=> (Matches # {})
        /\ WriteDone => Matches # {}
        /\ Matches # {} =>
              /\ crtc_info.of = FirstMatch
              /\ rect = CrtcGeom(res[FirstMatch].crtc)
              /\ RatIs(m[3], rect.x, display[1])
              /\ RatIs(m[1], rect.width, display[1])
              /\ examined = [k \in 1..FirstMatch |-> k]
        /\ Matches = {} =>
              /\ InSeq(MsgNoOutput, out)
              /\ NothingBuilt
              /\ Returned => result = EXIT_FAILURE

C8_Witness ==
    /\ Returned
    /\ invoked = <<"map_crtc_xrandr">>
    /\ Len(res) = 2
    /\ Matches = {1, 2}
    /\ rect = CrtcGeom(1)
    /\ examined = <<1>>
    /\ WriteDone

(* C9: on a server without the atom "FLOAT" or without the atom "Coordinate
   Transformation Matrix", apply_matrix fails with a "server is too old"
   message before any property read or write, and creates no atom (stated for
   the runs whose screen-list reads stayed inside the list). *)
C9_MissingAtomRejected ==
    (Applied /\ ReadsInside /\ atoms0 # {FLOAT, CTM}) =>
        /\ rc = EXIT_FAILURE
        /\ InSeq(MsgNoFloat, err) \/ InSeq(MsgNoMatrix, err)
        /\ ~ReadDone
        /\ ~WriteDone
        /\ atoms = atoms0

(* C10: the screen list is only ever read at an index i with
   0 <= i < screen count. *)
C10_ScreenIndexInRange ==
    \A k \in reads : 0 <= k /\ k < nscreens

====
